---- MODULE Spec2Model ----
(***************************************************************************)
(* The interactive pause action plugin                                     *)
(* (ansible_stuff/plugins/action/pause.py): one invocation of              *)
(* ActionModule.run, the terminal it reads from, and the process-wide      *)
(* SIGALRM alarm that can interrupt it between any two steps.              *)
(***************************************************************************)
EXTENDS Integers, Sequences, FiniteSets, TLC

\* Number of bytes (or end-of-input results) the input stream delivers to
\* one invocation.
MaxReads == 4

VARIABLES
    args,         \* self._task.args, the stream kinds and the terminal driver
    pc,           \* position of run()
    echo,         \* local echo: <<>> is None, <<b>> is the boolean b
    seconds,      \* local seconds: <<>> is None, <<n>> is the integer n
    alarm,        \* seconds the pending SIGALRM was armed for, 0 when none
    handler,      \* whether timeout_handler is installed for SIGALRM
    stdin_fd,     \* <<>> is None, <<0>> a descriptor
    stdoutBound,  \* whether the local stdout has been assigned
    old_settings, \* <<>> is None, <<attrs>> the snapshot
    intr,         \* local intr: {} while unbound, {bytes} once assigned
    backspace,    \* local backspace: kind "unbound", "bytes" or "list"
    stdinAttr,    \* attributes of the input terminal
    stdoutAttr,   \* attributes of the output terminal when it is another device
    flushed,      \* whether tcflush(TCIFLUSH) was applied to the input
    result,       \* the result dict
    typed,        \* every value stdin.read(1) has returned so far
    out,          \* what was written to stdout
    shown,        \* display.display / display.warning calls
    pending,      \* exception in flight while the finally clause runs
    outcome,      \* how run() ended
    firedAt,      \* where run() was when the alarm fired
    dialogKey     \* the key _c_or_a accepted, <<>> while none

vars == <<args, pc, echo, seconds, alarm, handler, stdin_fd, stdoutBound,
          old_settings, intr, backspace, stdinAttr, stdoutAttr, flushed,
          result, typed, out, shown, pending, outcome, firedAt, dialogKey>>

----------------------------------------------------------------------------
\* Bytes and text

CR == <<13>>
LF == <<10>>
EOF == <<>>
DEL == <<127>>
BS == <<8>>
\* b'\x03', A, c
Keys == {<<3>>, CR, LF, DEL, BS, <<65>>, <<99>>, EOF}

\* str.encode: UTF-8 of a text of code points below 2048
RECURSIVE Encode(_)
Encode(t) ==
    IF t = <<>> THEN <<>>
    ELSE LET c == Head(t) IN
         (IF c < 128 THEN <<c>> ELSE <<192 + (c \div 64), 128 + (c % 64)>>)
         \o Encode(Tail(t))

\* to_text(..., errors='surrogate_or_strict'): UTF-8 decoding, an undecodable
\* byte b becoming the lone surrogate 0xDC00 + b
RECURSIVE ToText(_)
ToText(b) ==
    IF b = <<>> THEN <<>>
    ELSE LET h == Head(b) IN
         IF h < 128 THEN <<h>> \o ToText(Tail(b))
         ELSE IF /\ h >= 194 /\ h <= 223 /\ Len(b) >= 2
                 /\ b[2] >= 128 /\ b[2] <= 191
              THEN <<(h - 192) * 64 + (b[2] - 128)>> \o ToText(Tail(Tail(b)))
              ELSE <<56320 + h>> \o ToText(Tail(b))

\* bytes.lower() of a value read(1) returned
Lower(k) ==
    IF k # <<>> /\ k[1] >= 65 /\ k[1] <= 90 THEN <<k[1] + 32>> ELSE k

\* result['user_input'][:-1]
DropLast(s) == IF s = <<>> THEN <<>> ELSE SubSeq(s, 1, Len(s) - 1)

\* key_pressed in backspace: a substring test against the VERASE bytes, a
\* membership test against the fallback list
InBackspace(k, bs) ==
    IF bs.kind = "bytes" THEN k = <<>> \/ k \in bs.items
    ELSE k \in bs.items

----------------------------------------------------------------------------
\* Terminal

OrigAttr == [raw |-> FALSE, echo |-> TRUE]

\* tty.setraw: no canonical processing, no driver echo
SetRawAttr(a) == [a EXCEPT !.raw = TRUE, !.echo = FALSE]

\* new_settings[3] | termios.ECHO
EchoOn(a) == [a EXCEPT !.echo = TRUE]

\* os.isatty(stdin_fd)
IsattyIn == args.stdin = "tty"

\* os.isatty(stdout_fd)
IsattyOut == args.stdout \in {"same_tty", "other_tty"}

\* clear_line(stdout)
ClearLine(o) == o \o <<[kind |-> "bol", data |-> <<>>], [kind |-> "eol", data |-> <<>>]>>

\* stdout.write(data)
Write(o, kind, data) == Append(o, [kind |-> kind, data |-> data])

----------------------------------------------------------------------------
\* Inputs of one invocation

EchoArgs == {"absent", "yes", "no", "bad"}
SecondsArgs == {[kind |-> "absent", val |-> 0], [kind |-> "bad", val |-> 0],
                [kind |-> "int", val |-> 0], [kind |-> "int", val |-> 2]}
\* the prompt and timeout_answer keys; the answer is the text "Y" + e-acute
PromptArgs == {[prompt |-> FALSE, answer |-> <<>>],
               [prompt |-> TRUE, answer |-> <<>>],
               [prompt |-> TRUE, answer |-> <<<<89, 233>>>>]}
StdinKinds == {"tty", "pipe", "closed", "absent"}
StdoutKinds == {"same_tty", "other_tty", "file"}

Args == [echo : EchoArgs, seconds : SecondsArgs, p : PromptArgs,
         stdin : StdinKinds, stdout : StdoutKinds, cc : BOOLEAN]

HasPrompt == args.p.prompt
HasAnswer == args.p.answer # <<>>

\* entry of run(): nothing parsed, armed, opened or read yet
Entry ==
    /\ pc = "start"
    /\ echo = <<>>
    /\ seconds = <<>>
    /\ alarm = 0
    /\ handler = FALSE
    /\ stdin_fd = <<>>
    /\ stdoutBound = FALSE
    /\ old_settings = <<>>
    /\ intr = {}
    /\ backspace = [kind |-> "unbound", items |-> {}]
    /\ stdinAttr = OrigAttr
    /\ stdoutAttr = OrigAttr
    /\ flushed = FALSE
    /\ result = [failed |-> FALSE, msg |-> "", echo |-> <<>>,
                 user_input |-> <<>>, stdout |-> ""]
    /\ typed = <<>>
    /\ out = <<>>
    /\ shown = <<>>
    /\ pending = "none"
    /\ outcome = "running"
    /\ firedAt = "never"
    /\ dialogKey = <<>>

Init == args \in Args /\ Entry

----------------------------------------------------------------------------
\* run(), step by step

\* boolean(self._task.args['echo']) raises TypeError
EchoParseFails == args.echo = "bad"

\* a seconds value that is not an integer is let through
SecondsParseAccepted == FALSE

\* int(self._task.args['seconds']) raises ValueError
SecondsParseFails == args.seconds.kind = "bad"

\* the clamp tests "seconds < 0", so that 0 is passed to signal.alarm
ClampZeroKept(n) == IF n < 0 THEN 1 ELSE n

\* seconds after "if seconds < 1: seconds = 1"
Clamp(n) == IF n < 1 THEN 1 ELSE n

\* lines 187-246: option parsing, the early failed returns, result defaults
Validate ==
    /\ pc = "start"
    /\ IF EchoParseFails
       THEN /\ result' = [result EXCEPT !.failed = TRUE, !.msg = "echo"]
            /\ pc' = "done"
            /\ outcome' = "config_error"
            /\ UNCHANGED <<echo, seconds>>
       ELSE /\ echo' = CASE args.echo = "yes" -> <<TRUE>>
                         [] args.echo = "no" -> <<FALSE>>
                         [] OTHER -> <<>>
            /\ IF SecondsParseFails
               THEN /\ result' = [result EXCEPT !.failed = TRUE, !.msg = "seconds"]
                    /\ pc' = "done"
                    /\ outcome' = "config_error"
                    /\ UNCHANGED seconds
               ELSE /\ seconds' = IF args.seconds.kind = "int"
                                  THEN <<args.seconds.val>> ELSE <<>>
                    /\ result' = [result EXCEPT !.user_input = <<>>]
                    /\ pc' = "arm"
                    /\ UNCHANGED outcome
    /\ UNCHANGED <<args, alarm, handler, stdin_fd, stdoutBound, old_settings,
                   intr, backspace, stdinAttr, stdoutAttr, flushed, typed, out,
                   shown, pending, firedAt, dialogKey>>

\* lines 251-276: clamp, install the handler, arm the alarm, show the prompts
Arm ==
    /\ pc = "arm"
    /\ IF seconds # <<>>
       THEN /\ seconds' = <<Clamp(seconds[1])>>
            /\ handler' = TRUE
            /\ alarm' = Clamp(seconds[1])
            /\ shown' = IF ~HasPrompt
                        THEN shown \o <<"pausing", "ctrl_c_hint">>
                        ELSE shown \o <<"pausing", "prompt">>
       ELSE /\ shown' = Append(shown, "prompt")
            /\ UNCHANGED <<seconds, handler, alarm>>
    /\ pc' = "resolve"
    /\ UNCHANGED <<args, echo, stdin_fd, stdoutBound, old_settings, intr,
                   backspace, stdinAttr, stdoutAttr, flushed, result, typed, out,
                   pending, outcome, firedAt, dialogKey>>

\* lines 280-294: the streams and their descriptors
Resolve ==
    /\ pc = "resolve"
    /\ stdin_fd' = IF args.stdin \in {"tty", "pipe"} THEN <<0>> ELSE <<>>
    /\ stdoutBound' = (args.stdin # "absent")
    /\ pc' = "snapshot"
    /\ UNCHANGED <<args, echo, seconds, alarm, handler, old_settings, intr,
                   backspace, stdinAttr, stdoutAttr, flushed, result, typed, out,
                   shown, pending, outcome, firedAt, dialogKey>>

\* lines 296-311: interrupt and erase characters, the attribute snapshot
Snapshot ==
    /\ pc = "snapshot"
    /\ IF stdin_fd # <<>> /\ IsattyIn
       THEN /\ intr' = {<<3>>}
            /\ backspace' = IF args.cc
                            THEN [kind |-> "bytes", items |-> {DEL}]
                            ELSE [kind |-> "list", items |-> {DEL, BS}]
            /\ old_settings' = <<stdinAttr>>
            /\ pc' = "setraw"
       ELSE /\ pc' = "read"
            /\ UNCHANGED <<intr, backspace, old_settings>>
    /\ UNCHANGED <<args, echo, seconds, alarm, handler, stdin_fd, stdoutBound,
                   stdinAttr, stdoutAttr, flushed, result, typed, out, shown,
                   pending, outcome, firedAt, dialogKey>>

\* "if echo:" on the local echo
EchoTruthy == echo = <<TRUE>>

\* lines 312-327: raw mode on both streams, echo back on, flush
SetRaw ==
    /\ pc = "setraw"
    /\ stdinAttr' = IF EchoTruthy THEN EchoOn(SetRawAttr(stdinAttr))
                    ELSE SetRawAttr(stdinAttr)
    /\ stdoutAttr' = IF IsattyOut /\ args.stdout = "other_tty"
                     THEN SetRawAttr(stdoutAttr) ELSE stdoutAttr
    /\ flushed' = TRUE
    /\ pc' = "read"
    /\ UNCHANGED <<args, echo, seconds, alarm, handler, stdin_fd, stdoutBound,
                   old_settings, intr, backspace, result, typed, out, shown,
                   pending, outcome, firedAt, dialogKey>>

\* the erase key deletes from the front of the input
EditInputDropsFirst(k, ui) ==
    IF k \in {CR, LF} THEN ui
    ELSE IF InBackspace(k, backspace) THEN (IF ui = <<>> THEN <<>> ELSE Tail(ui))
    ELSE ui \o k

\* lines 345-357: what one key does to result['user_input']
EditInput(k, ui) ==
    IF k \in {CR, LF} THEN ui
    ELSE IF InBackspace(k, backspace) THEN DropLast(ui)
    ELSE ui \o k

\* the input is redrawn after an erase key whatever echo is
EditOutputAlwaysRedraws(k, ui, o) ==
    IF k \in {CR, LF} THEN ClearLine(o)
    ELSE IF InBackspace(k, backspace) THEN Write(ClearLine(o), "redraw", DropLast(ui))
    ELSE o

\* lines 345-357: what one key writes to stdout
EditOutput(k, ui, o) ==
    IF k \in {CR, LF} THEN ClearLine(o)
    ELSE IF InBackspace(k, backspace)
         THEN IF EchoTruthy THEN Write(ClearLine(o), "redraw", DropLast(ui))
              ELSE ClearLine(o)
    ELSE o

\* lines 329-357: one pass of the loop body with a descriptor to read from
ReadKey ==
    /\ pc = "read"
    /\ stdin_fd # <<>>
    /\ Len(typed) < MaxReads
    /\ \E k \in Keys :
        /\ typed' = Append(typed, k)
        /\ IF intr = {}
           THEN \* key_pressed == intr raises UnboundLocalError
                /\ pending' = "unbound"
                /\ pc' = "finally"
                /\ UNCHANGED <<result, out, shown>>
           ELSE IF k \in intr
           THEN /\ out' = ClearLine(out)
                /\ pc' = "intr_handler"
                /\ UNCHANGED <<result, shown, pending>>
           ELSE IF ~IsattyIn
           THEN /\ shown' = Append(shown, "warning")
                /\ pc' = "finally"
                /\ UNCHANGED <<result, out, pending>>
           ELSE /\ result' = [result EXCEPT
                                !.user_input = EditInput(k, result.user_input)]
                /\ out' = EditOutput(k, result.user_input, out)
                /\ pc' = IF k \in {CR, LF} THEN "finally" ELSE "read"
                /\ UNCHANGED <<shown, pending>>
    /\ UNCHANGED <<args, echo, seconds, alarm, handler, stdin_fd, stdoutBound,
                   old_settings, intr, backspace, stdinAttr, stdoutAttr, flushed,
                   outcome, firedAt, dialogKey>>

\* lines 329-343 with stdin_fd None: warn and leave the loop
NoStdin ==
    /\ pc = "read"
    /\ stdin_fd = <<>>
    /\ shown' = Append(shown, "warning")
    /\ pc' = "finally"
    /\ UNCHANGED <<args, echo, seconds, alarm, handler, stdin_fd, stdoutBound,
                   old_settings, intr, backspace, stdinAttr, stdoutAttr, flushed,
                   result, typed, out, pending, outcome, firedAt, dialogKey>>

\* the alarm is left armed on entry of the sub-dialog
DisarmForgotten(a) == a

\* signal.alarm(0)
Disarm(a) == a - a

\* lines 359-361: entry of the KeyboardInterrupt handler
EnterDialog ==
    /\ pc = "intr_handler"
    /\ alarm' = Disarm(alarm)
    /\ shown' = Append(shown, "c_or_a")
    /\ pc' = "dialog"
    /\ UNCHANGED <<args, echo, seconds, handler, stdin_fd, stdoutBound,
                   old_settings, intr, backspace, stdinAttr, stdoutAttr, flushed,
                   result, typed, out, pending, outcome, firedAt, dialogKey>>

\* the comparison without lower()
IsAbortKeyCaseSensitive(k) == k = <<97>>

\* _c_or_a: key_pressed.lower() == b'a'
IsAbortKey(k) == Lower(k) = <<97>>

\* Enter is taken for "continue" as well
IsContinueKeyOrNewline(k) == Lower(k) = <<99>> \/ k \in {CR, LF}

\* _c_or_a: key_pressed.lower() == b'c'
IsContinueKey(k) == Lower(k) = <<99>>

\* lines 362-368 and _c_or_a: one key of the sub-dialog
DialogKey ==
    /\ pc = "dialog"
    /\ Len(typed) < MaxReads
    /\ \E k \in Keys :
        /\ typed' = Append(typed, k)
        /\ IF IsAbortKey(k)
           THEN /\ dialogKey' = <<"a">>
                /\ out' = ClearLine(out)
                /\ pending' = "abort"
                /\ pc' = "finally"
           ELSE IF IsContinueKey(k)
           THEN /\ dialogKey' = <<"c">>
                /\ out' = ClearLine(out)
                /\ pc' = "finally"
                /\ UNCHANGED pending
           ELSE UNCHANGED <<dialogKey, out, pending, pc>>
    /\ UNCHANGED <<args, echo, seconds, alarm, handler, stdin_fd, stdoutBound,
                   old_settings, intr, backspace, stdinAttr, stdoutAttr, flushed,
                   result, shown, outcome, firedAt>>

\* line 371: the branch that substitutes the answer
Substitutes == HasPrompt /\ HasAnswer

\* the answer is appended to what was typed
TimeoutInputAppended == result.user_input \o Encode(args.p.answer[1])

\* line 228 and line 372: timeout_answer = str.encode(...)
TimeoutInput == Encode(args.p.answer[1])

\* without an answer to substitute, the handler empties the input
TimeoutResolveDiscards ==
    /\ pc = "timeout_handler"
    /\ IF Substitutes
       THEN /\ result' = [result EXCEPT !.user_input = TimeoutInput]
            /\ IF stdoutBound
               THEN /\ out' = Write(ClearLine(out), "notice", TimeoutInput)
                    /\ UNCHANGED pending
               ELSE \* clear_line(stdout) raises UnboundLocalError
                    /\ pending' = "unbound"
                    /\ UNCHANGED out
       ELSE /\ result' = [result EXCEPT !.user_input = <<>>]
            /\ UNCHANGED <<out, pending>>
    /\ pc' = "finally"
    /\ UNCHANGED <<args, echo, seconds, alarm, handler, stdin_fd, stdoutBound,
                   old_settings, intr, backspace, stdinAttr, stdoutAttr, flushed,
                   typed, shown, outcome, firedAt, dialogKey>>

\* lines 370-378: except AnsibleTimeoutExceeded
TimeoutResolve ==
    /\ pc = "timeout_handler"
    /\ IF Substitutes
       THEN /\ result' = [result EXCEPT !.user_input = TimeoutInput]
            /\ IF stdoutBound
               THEN /\ out' = Write(ClearLine(out), "notice", TimeoutInput)
                    /\ UNCHANGED pending
               ELSE \* clear_line(stdout) raises UnboundLocalError
                    /\ pending' = "unbound"
                    /\ UNCHANGED out
       ELSE UNCHANGED <<result, out, pending>>
    /\ pc' = "finally"
    /\ UNCHANGED <<args, echo, seconds, alarm, handler, stdin_fd, stdoutBound,
                   old_settings, intr, backspace, stdinAttr, stdoutAttr, flushed,
                   typed, shown, outcome, firedAt, dialogKey>>

\* lines 382-383: the attributes of the input terminal after the restore
RestoredAttr ==
    IF stdin_fd # <<>> /\ old_settings # <<>> /\ IsattyIn
    THEN old_settings[1] ELSE stdinAttr

\* lines 379-383: first half of the finally clause
Restore ==
    /\ pc = "finally"
    /\ stdinAttr' = RestoredAttr
    /\ pc' = "finish"
    /\ UNCHANGED <<args, echo, seconds, alarm, handler, stdin_fd, stdoutBound,
                   old_settings, intr, backspace, stdoutAttr, flushed, result,
                   typed, out, shown, pending, outcome, firedAt, dialogKey>>

\* lines 385-392: the rest of the finally clause, then the return or the
\* exception in flight
Finish ==
    /\ pc = "finish"
    /\ IF pending = "none"
       THEN /\ result' = [result EXCEPT !.stdout = "Paused",
                                        !.user_input = ToText(result.user_input)]
            /\ outcome' = "returned"
       ELSE /\ result' = [result EXCEPT !.stdout = "Paused"]
            /\ outcome' = pending
    /\ pc' = "done"
    /\ UNCHANGED <<args, echo, seconds, alarm, handler, stdin_fd, stdoutBound,
                   old_settings, intr, backspace, stdinAttr, stdoutAttr, flushed,
                   typed, out, shown, pending, firedAt, dialogKey>>

\* positions inside the outer try block
InTry == {"resolve", "snapshot", "setraw", "read", "intr_handler", "dialog"}

\* timeout_handler: SIGALRM is delivered and raises AnsibleTimeoutExceeded
\* wherever run() is; after run() has ended it is raised in the caller
AlarmFire ==
    /\ alarm > 0
    /\ alarm' = 0
    /\ firedAt' = pc
    /\ IF pc \in InTry
       THEN /\ pc' = "timeout_handler"
            /\ UNCHANGED <<outcome, pending>>
       ELSE IF pc \in {"finally", "finish"}
       THEN /\ pc' = "done"
            /\ pending' = "timeout"
            /\ outcome' = "timeout"
       ELSE UNCHANGED <<pc, outcome, pending>>
    /\ UNCHANGED <<args, echo, seconds, handler, stdin_fd, stdoutBound,
                   old_settings, intr, backspace, stdinAttr, stdoutAttr, flushed,
                   result, typed, out, shown, dialogKey>>

Next ==
    \/ Validate
    \/ Arm
    \/ Resolve
    \/ Snapshot
    \/ SetRaw
    \/ ReadKey
    \/ NoStdin
    \/ EnterDialog
    \/ DialogKey
    \/ TimeoutResolve
    \/ Restore
    \/ Finish
    \/ AlarmFire

Spec == Init /\ [][Next]_vars

\* Option parsing and alarm arming alone, over a range of seconds values
MaxSeconds == 3

SecondsArm ==
    {[kind |-> "absent", val |-> 0], [kind |-> "bad", val |-> 0]}
    \cup {[kind |-> "int", val |-> n] : n \in (0 - MaxSeconds)..MaxSeconds}

ArgsArm == [echo : EchoArgs, seconds : SecondsArm, p : PromptArgs,
            stdin : {"tty"}, stdout : {"same_tty"}, cc : {TRUE}]

InitArm == args \in ArgsArm /\ Entry

NextArm ==
    \/ Validate
    \/ Arm

SpecArm == InitArm /\ [][NextArm]_vars

----------------------------------------------------------------------------
\* Vocabulary of the properties

Intr == <<3>>

Last(s) == s[Len(s)]

Front(s) == SubSeq(s, 1, Len(s) - 1)

Ended == pc = "done"

\* run() has left the read loop (or never entered it) and is in or past the
\* finally clause
PastLoop == pc \in {"finally", "finish", "done"}

\* the reference line editor: an ordinary byte is appended, an erase byte
\* removes the last accumulated byte, nothing else happens
RECURSIVE RefEdit(_, _)
RefEdit(keys, erase) ==
    IF keys = <<>> THEN <<>>
    ELSE LET before == RefEdit(Front(keys), erase)
             k == Last(keys)
         IN IF k \in erase
            THEN (IF before = <<>> THEN <<>> ELSE Front(before))
            ELSE before \o k

\* index of the first interrupt character read, 0 when none was
FirstIntr ==
    IF \E i \in 1..Len(typed) : typed[i] = Intr
    THEN CHOOSE i \in 1..Len(typed) :
            typed[i] = Intr /\ \A j \in 1..(i - 1) : typed[j] # Intr
    ELSE 0

\* the keys read by the main loop before the interrupt character
BeforeIntr == SubSeq(typed, 1, FirstIntr - 1)

\* the interrupt character was read by the main loop, and the last key read
\* is the first key after it that is one of a, A, c, C
DialogEndedBy(letter) ==
    /\ FirstIntr > 0
    /\ \A j \in 1..(FirstIntr - 1) : typed[j] \notin {CR, LF}
    /\ Len(typed) > FirstIntr
    /\ Lower(Last(typed)) = letter
    /\ \A j \in (FirstIntr + 1)..(Len(typed) - 1) :
          Lower(typed[j]) \notin {<<97>>, <<99>>}

NoticeWritten == \E i \in 1..Len(out) : out[i].kind = "notice"

----------------------------------------------------------------------------
\* C1: whenever run() has returned or raised, the attributes of the input
\* terminal equal the attributes it had before the call.
C1_RestoredOnEveryExit == Ended => stdinAttr = OrigAttr

\* C2: once the read loop has been left other than by the alarm, and once
\* run() has returned or raised, no alarm armed by run() is pending.
C2_AlarmDisarmedAfterLoop == PastLoop => alarm = 0

\* C3: the timeout condition never escapes run() and never strikes after
\* run() has ended.
C3_TimeoutNeverSurfaces == outcome # "timeout" /\ firedAt # "done"

\* C4: prompt, timeout_answer and seconds configured, interactive terminal,
\* alarm fired while the loop waited for a key: the captured input is the
\* configured answer whatever was typed, the line is cleared, the notice is
\* written, and run() returns normally.
C4_TimeoutAnswerSubstituted ==
    (Substitutes /\ IsattyIn /\ firedAt = "read") =>
        /\ pc \in {"timeout_handler", "finally", "finish", "done"}
        /\ pending = "none"
        /\ PastLoop =>
              /\ Len(out) >= 3
              /\ out[Len(out)] = [kind |-> "notice", data |-> Encode(args.p.answer[1])]
              /\ out[Len(out) - 1].kind = "eol"
              /\ out[Len(out) - 2].kind = "bol"
        /\ pc \in {"finally", "finish"} =>
              ToText(result.user_input) = args.p.answer[1]
        /\ Ended =>
              /\ outcome = "returned"
              /\ ~result.failed
              /\ result.user_input = args.p.answer[1]

C4_Witness ==
    /\ Substitutes /\ IsattyIn /\ firedAt = "read" /\ Ended
    /\ \E i \in 1..Len(typed) : typed[i] = <<65>>
    /\ result.user_input = <<89, 233>>

\* C5: interrupt character, then a or A as the first accepted sub-dialog
\* key: run() raises the abort error and returns no result, the terminal is
\* restored before the error leaves run(), and no timeout answer is
\* substituted.
C5_AbortRaisesAfterCleanup ==
    (DialogEndedBy(<<97>>) \/ dialogKey = <<"a">>) =>
        /\ dialogKey = <<"a">>
        /\ DialogEndedBy(<<97>>)
        /\ PastLoop
        /\ pending = "abort"
        /\ alarm = 0 /\ firedAt = "never"
        /\ ~NoticeWritten
        /\ EOF \notin {typed[j] : j \in 1..(FirstIntr - 1)} =>
              result.user_input = RefEdit(BeforeIntr, backspace.items)
        /\ pc \in {"finish", "done"} => stdinAttr = OrigAttr
        /\ Ended => outcome = "abort"

C5_Witness ==
    /\ dialogKey = <<"a">> /\ Ended /\ outcome = "abort"
    /\ seconds # <<>> /\ Len(typed) >= 3

\* C6: interrupt character, then c or C as the first accepted sub-dialog
\* key: run() returns normally and the captured input is exactly what the
\* main loop had accumulated before the interrupt character; no key is read
\* after the c.
C6_ContinueKeepsInput ==
    (DialogEndedBy(<<99>>) \/ dialogKey = <<"c">>) =>
        /\ dialogKey = <<"c">>
        /\ DialogEndedBy(<<99>>)
        /\ PastLoop
        /\ pending = "none"
        /\ alarm = 0 /\ firedAt = "never"
        /\ EOF \notin {typed[j] : j \in 1..(FirstIntr - 1)} =>
              /\ ~Ended => result.user_input = RefEdit(BeforeIntr, backspace.items)
              /\ Ended => result.user_input = ToText(RefEdit(BeforeIntr, backspace.items))
        /\ Ended => outcome = "returned" /\ ~result.failed

C6_Witness ==
    /\ dialogKey = <<"c">> /\ Ended /\ outcome = "returned"
    /\ result.user_input = <<65>>
    /\ Len(typed) = 4

\* C7: a keystroke sequence without interrupt character that ends with its
\* first carriage return or line feed: the captured input is what the
\* reference line editor yields for the keys before the newline.
NewlineEnded ==
    /\ IsattyIn
    /\ typed # <<>>
    /\ Last(typed) \in {CR, LF}
    /\ \A j \in 1..(Len(typed) - 1) : typed[j] \notin {CR, LF, Intr, EOF}

C7_LineEditor ==
    NewlineEnded =>
        /\ PastLoop
        /\ pending \in {"none", "timeout"}
        /\ outcome # "returned" =>
              result.user_input = RefEdit(Front(typed), backspace.items)
        /\ outcome = "returned" =>
              result.user_input = ToText(RefEdit(Front(typed), backspace.items))

\* A, erase, erase, newline: an erase on one byte, then one on the empty input
C7_Witness ==
    /\ NewlineEnded /\ outcome = "returned"
    /\ typed = <<<<65>>, DEL, DEL, CR>>
    /\ result.user_input = <<>>

\* C8: non-interactive input (a descriptor that is not a terminal, a closed
\* or an absent one): run() consumes no input, raises nothing, touches no
\* terminal attribute, and returns a normal result with empty input.  Stated
\* for the invocations without seconds, where no alarm is involved.
C8_NonInteractiveReturnsEmpty ==
    (args.stdin # "tty" /\ args.echo # "bad" /\ args.seconds.kind = "absent") =>
        /\ typed = <<>>
        /\ pending = "none"
        /\ stdinAttr = OrigAttr /\ stdoutAttr = OrigAttr /\ ~flushed
        /\ old_settings = <<>>
        /\ Ended => /\ outcome = "returned"
                    /\ ~result.failed
                    /\ result.user_input = <<>>

\* C9: a read that returns no byte ends the loop (main loop or sub-dialog)
\* with empty captured input and a warning.
C9_EndOfInputEndsLoop ==
    (IsattyIn /\ typed # <<>> /\ Last(typed) = EOF) =>
        /\ pc \notin {"read", "dialog"}
        /\ result.user_input = <<>>
        /\ \E i \in 1..Len(shown) : shown[i] = "warning"

C11_DurationOnlyWaitsForAlarm ==
    (args.seconds.kind = "int" /\ ~HasPrompt /\ args.echo # "bad") =>
        /\ PastLoop => firedAt \in InTry /\ alarm = 0
        /\ Ended => outcome = "returned" /\ ~result.failed

\* C12: echo not supplied, interactive terminal: while the loop or the
\* sub-dialog waits for a key the driver echo flag is on, and the output of
\* an erase key ends with the redrawn input.
C12_EchoDefaultsToTrue ==
    (args.echo = "absent" /\ IsattyIn) =>
        /\ pc \in {"read", "intr_handler", "dialog"} => stdinAttr.echo
        /\ (pc = "read" /\ typed # <<>> /\ Last(typed) = DEL) =>
              /\ out # <<>>
              /\ Last(out) = [kind |-> "redraw", data |-> result.user_input]

\* C13: a seconds value below 1 arms the alarm for exactly 1 second, a
\* value of 1 or more for exactly that value, with and without prompt; the
\* alarm is never left unarmed when seconds is given.
C13_AlarmArmedForClampedSeconds ==
    (args.seconds.kind = "int" /\ args.echo # "bad" /\ pc = "resolve") =>
        /\ handler
        /\ alarm >= 1
        /\ args.seconds.val < 1 => alarm = 1
        /\ args.seconds.val >= 1 => alarm = args.seconds.val
        /\ seconds = <<alarm>>

C13_Witness ==
    /\ pc = "resolve" /\ HasPrompt /\ args.seconds.val = 0 - 1
    /\ args.seconds.kind = "int" /\ alarm = 1

\* C14: an invocation on a terminal that passed validation, read at least
\* one key and has ended, ended in exactly one of: a returned result with the typed input, a
\* returned result with the substituted answer, the user abort.  An abort
\* comes with no result and no substitution, a continue is not overwritten
\* by the answer, a substitution is not followed by an abort.
C14_ExactlyOneOutcome ==
    (IsattyIn /\ typed # <<>> /\ Ended /\ outcome # "config_error") =>
        /\ outcome \in {"returned", "abort"}
        /\ outcome = "abort" <=> dialogKey = <<"a">>
        /\ dialogKey # <<>> => ~NoticeWritten
        /\ NoticeWritten => outcome = "returned"

\* C15: the echo field of a returned result is the boolean in effect: true
\* when echo was absent or true, false when it was false.
C15_ResultEchoIsResolvedEcho ==
    outcome = "returned" => result.echo = <<args.echo # "no">>

\* C16: while the sub-dialog waits for C or A no alarm is armed, none has
\* fired, and no timeout answer has been substituted.
C16_NoAlarmInDialog ==
    pc = "dialog" =>
        /\ alarm = 0
        /\ firedAt = "never"
        /\ ~NoticeWritten
        /\ pending = "none"

C16_Witness ==
    /\ pc = "dialog" /\ args.seconds.kind = "int" /\ HasAnswer
    /\ handler /\ alarm = 0
    /\ Len(typed) >= 3 /\ FirstIntr = 1

\* C17: in the sub-dialog a key other than c, C, a, A changes neither the
\* accumulated input, nor the terminal modes, nor the alarm, nor the output,
\* and the sub-dialog goes on reading; c, C, a and A, and only they, end it.
C17_OtherDialogKeysIgnored ==
    [][(pc = "dialog" /\ typed' # typed) =>
          IF Lower(Last(typed')) \in {<<97>>, <<99>>}
          THEN /\ pc' = "finally"
               /\ dialogKey' = IF Lower(Last(typed')) = <<97>> THEN <<"a">> ELSE <<"c">>
          ELSE /\ pc' = "dialog"
               /\ UNCHANGED <<result, stdinAttr, stdoutAttr, alarm, handler,
                              out, dialogKey, pending, outcome>>]_vars

\* A, interrupt, Enter, erase: two keys ignored by the sub-dialog
C17_Witness ==
    /\ pc = "dialog"
    /\ typed = <<<<65>>, Intr, CR, DEL>>
    /\ result.user_input = <<65>>
    /\ stdinAttr.raw

\* C18: seconds and prompt without timeout_answer, interactive terminal,
\* alarm fired while the loop waited for a key: run() returns normally, the
\* captured input is what had been typed (and edited) so far, and no notice
\* is written.
C18_TimeoutWithoutAnswerKeepsTyped ==
    (HasPrompt /\ ~HasAnswer /\ IsattyIn /\ firedAt = "read") =>
        /\ pc \in {"timeout_handler", "finally", "finish", "done"}
        /\ pending = "none"
        /\ ~NoticeWritten
        /\ EOF \notin {typed[j] : j \in 1..Len(typed)} =>
              /\ ~Ended => result.user_input = RefEdit(typed, backspace.items)
              /\ Ended => result.user_input = ToText(RefEdit(typed, backspace.items))
        /\ Ended => outcome = "returned" /\ ~result.failed

C18_Witness ==
    /\ HasPrompt /\ ~HasAnswer /\ IsattyIn /\ firedAt = "read" /\ Ended
    /\ typed = <<<<65>>, <<99>>, DEL, <<99>>>>
    /\ result.user_input = <<65, 99>>

\* C19: seconds absent: no alarm is armed, no handler installed, nothing
\* fires; on a terminal the loop is left only by a newline or through the
\* sub-dialog; on non-interactive stdin run() returns at once, having read
\* nothing.
C19_NoSecondsNoAlarm ==
    (args.seconds.kind = "absent" /\ args.echo # "bad") =>
        /\ alarm = 0 /\ ~handler /\ firedAt = "never"
        /\ pc # "timeout_handler" /\ outcome # "timeout"
        /\ (IsattyIn /\ PastLoop) =>
              \/ dialogKey # <<>>
              \/ typed # <<>> /\ Last(typed) \in {CR, LF}
        /\ ~IsattyIn =>
              /\ typed = <<>>
              /\ pending = "none"
              /\ Ended => outcome = "returned"

\* the loop body applied to a sequence of keys that keep the loop going:
\* the accumulated input and the output written
RECURSIVE LoopRun(_)
LoopRun(keys) ==
    IF keys = <<>> THEN [ui |-> <<>>, o |-> <<>>]
    ELSE LET before == LoopRun(Front(keys))
             k == Last(keys)
         IN [ui |-> EditInput(k, before.ui),
             o |-> EditOutput(k, before.ui, before.o)]

\* a byte the loop appends to the input: no end-of-input, newline,
\* interrupt or erase
Ordinary(k) ==
    /\ k # EOF
    /\ k \notin {CR, LF}
    /\ k \notin intr
    /\ ~InBackspace(k, backspace)

\* the same keys with every ordinary byte replaced by the letter A
Blind(keys) ==
    [i \in 1..Len(keys) |-> IF Ordinary(keys[i]) THEN <<65>> ELSE keys[i]]

\* the same reads with every byte read replaced by the letter A
AllA(keys) ==
    [i \in 1..Len(keys) |-> IF keys[i] = EOF THEN EOF ELSE <<65>>]

EchoOffInLoop ==
    pc \in {"read", "intr_handler", "dialog"} => ~stdinAttr.echo

NoTypedByteWritten ==
    \A i \in 1..Len(out) :
        /\ out[i].kind \in {"bol", "eol", "notice"}
        /\ out[i].kind = "notice" => Substitutes /\ out[i].data = TimeoutInput
        /\ out[i].kind # "notice" => out[i].data = <<>>

\* C20 as claimed: echo false on a terminal: the driver echo flag stays off
\* during the loop, no typed byte is written, and the output is the one of
\* any other run that differs in the typed bytes only, such as the run in
\* which as many bytes were typed, all of them the letter A.
C20_OutputSameForAnyTypedBytes ==
    (args.echo = "no" /\ IsattyIn) =>
        /\ EchoOffInLoop
        /\ NoTypedByteWritten
        /\ (pc = "read" /\ firedAt = "never") => out = LoopRun(AllA(typed)).o

\* C20 as amended: echo false on a terminal: the driver echo flag stays off
\* during the loop, no typed byte is written, and the output is the one of
\* any other run whose keys differ in the values of the ordinary bytes only.
C20_OutputSameForAnyOrdinaryBytes ==
    (args.echo = "no" /\ IsattyIn) =>
        /\ EchoOffInLoop
        /\ NoTypedByteWritten
        /\ (pc = "read" /\ firedAt = "never") => out = LoopRun(Blind(typed)).o

\* c, c, erase: the line is cleared, the remaining c is not redrawn
C20_Witness ==
    /\ args.echo = "no" /\ IsattyIn /\ pc = "read" /\ firedAt = "never"
    /\ typed = <<<<99>>, <<99>>, DEL>>
    /\ result.user_input = <<99>>
    /\ out = ClearLine(<<>>)
    /\ ~stdinAttr.echo

\* C21: the output stream is switched to raw mode only when both input and
\* output are terminals and is left untouched when it is redirected; when it
\* was switched, the attributes of the output terminal are back to their
\* pre-call values once run() has returned or raised, also when the output
\* terminal is another device than the input terminal (stated here for
\* invocations without seconds, where no alarm can cut the cleanup short).
C21_OutputTerminalRestored ==
    /\ stdoutAttr.raw => IsattyIn /\ IsattyOut
    /\ args.stdout = "file" => stdoutAttr = OrigAttr
    /\ (args.seconds.kind = "absent" /\ Ended) =>
          /\ stdoutAttr = OrigAttr
          /\ args.stdout = "same_tty" => stdinAttr = OrigAttr

====
